---------------------------- MODULE Spec2Model ----------------------------
(***************************************************************************)
(* MorphNFT: the token registry (contract MorphNFT is ERC721URIStorage,    *)
(* Ownable), the two client scripts (deploy, mint) and the viewer (App).   *)
(*                                                                         *)
(* The registry is modelled with the EVM's call semantics: a call either   *)
(* completes or reverts to the storage it started from, and the receiver   *)
(* check of _safeMint hands control to the receiving contract in the       *)
(* middle of createNFT, which may call the registry again before it        *)
(* answers.                                                                *)
(***************************************************************************)
EXTENDS Integers, Sequences, FiniteSets

(* ------------------------------ bounds -------------------------------- *)

\* createNFT is offered while tokenCounter < MaxTokens
MaxTokens == 2
\* createNFT calls that may be in progress at once (one inside another)
MaxDepth == 2
\* clicks on "Fetch NFT Data" in one session of the viewer
MaxClicks == 2
\* runs of the client scripts in one session
MaxRuns == 2

(* ----------------------------- principals ----------------------------- *)

\* address(0)
Zero == "0x0"
\* externally owned accounts: no code, so _safeMint makes no call to them
EOAs == {"alice"}
\* accounts with code: _safeMint calls their onERC721Received
Contracts == {"K"}
Addr == EOAs \cup Contracts
\* metadata pointers offered to createNFT; the contract validates nothing
URIs == {"", "ipfs://a"}
\* identifiers the operations are tried on; some are always >= tokenCounter
Ids == 0 .. (MaxTokens + 1)

VARIABLES
    owner,            \* Ownable._owner
    tokenCounter,     \* MorphNFT.tokenCounter
    _owners,          \* ERC721._owners: tokenId -> address, Zero when unassigned
    _tokenURIs,       \* ERC721URIStorage._tokenURIs: tokenId -> string, "" by default
    frames,           \* createNFT calls suspended in the receiver check, outermost first
    hist,             \* history of the committed effects (reverted with the storage)
    lastCall,         \* the most recent createNFT or read and how it ended
    \* a run of a client script (scripts/deploy.js, the mint script)
    script,           \* which script the process runs
    pc,               \* the step main() is at, or how the process stands
    deployer,         \* const [deployer] = await ethers.getSigners()
    tx,               \* the transaction the script sent, as the network has it
    stdout,           \* lines written by console.log
    stderr,           \* errors written by console.error
    exitCode,         \* process.exitCode (0 while unset)
    steps,            \* the steps of main() started so far, in order
    finished,         \* the runs that have ended: script and exit code
    \* the viewer (App)
    nftURI,           \* useState(""): the displayed value
    reads,            \* the getNFTData invocations, one per click
    fetched,          \* values that tokenURI reads have returned to the viewer
    asked             \* token ids the viewer has asked tokenURI for

regVars == <<owner, tokenCounter, _owners, _tokenURIs, frames, hist, lastCall>>
clientVars == <<script, pc, deployer, tx, stdout, stderr, exitCode, steps, finished>>
viewVars == <<nftURI, reads, fetched, asked>>
offChain == <<clientVars, viewVars>>
vars == <<regVars, clientVars, viewVars>>

(* ------------------------- storage as a value ------------------------- *)

Storage ==
    [owner |-> owner, tokenCounter |-> tokenCounter,
     _owners |-> _owners, _tokenURIs |-> _tokenURIs, hist |-> hist]

Store(s) ==
    /\ owner' = s.owner
    /\ tokenCounter' = s.tokenCounter
    /\ _owners' = s._owners
    /\ _tokenURIs' = s._tokenURIs
    /\ hist' = s.hist

(* --------------------------- the constructor -------------------------- *)

\* constructor() ERC721("MorphNFT", "MNFT") { tokenCounter = 0; }
\* Ownable's constructor makes the deploying account the owner.
Constructed(creator) ==
    [owner |-> creator, tokenCounter |-> 0,
     _owners |-> [i \in Ids |-> Zero],
     _tokenURIs |-> [i \in Ids |-> ""],
     hist |-> [returned |-> <<>>, transferred |-> {},
               mints |-> [i \in Ids |-> 0], uriSets |-> [i \in Ids |-> 0]]]

NoCall == [op |-> "none", sender |-> Zero, id |-> -1, str |-> "", err |-> "", depth |-> 0]

\* the registry as deployed by `creator`
RegInitBy(creator) ==
    /\ owner = Constructed(creator).owner
    /\ tokenCounter = Constructed(creator).tokenCounter
    /\ _owners = Constructed(creator)._owners
    /\ _tokenURIs = Constructed(creator)._tokenURIs
    /\ hist = Constructed(creator).hist
    /\ frames = <<>>
    /\ lastCall = NoCall

\* deployed by an account of either kind
RegInit == \E creator \in Addr : RegInitBy(creator)


(* ------------------- inherited ERC721 / Ownable parts ------------------ *)

Ok(v) == [err |-> "", val |-> v]
Fail(e) == [err |-> e, val |-> ""]

\* createNFT declared without the onlyOwner modifier
onlyOwner_missing(s, sender) == TRUE

\* modifier onlyOwner: require(owner() == _msgSender())
onlyOwner(s, sender) == sender = s.owner

\* ERC721._exists: _owners[tokenId] != address(0)
_exists(s, id) == s._owners[id] # Zero

\* ERC721._mint after its require(!_exists(tokenId)): _owners[tokenId] = to
_mint(s, to, id) ==
    [s EXCEPT !._owners[id] = to, !.hist.mints[id] = @ + 1]

\* ERC721URIStorage._setTokenURI after its require(_exists(tokenId))
_setTokenURI(s, id, uri) ==
    [s EXCEPT !._tokenURIs[id] = uri, !.hist.uriSets[id] = @ + 1]

\* ERC721.ownerOf: reverts "ERC721: invalid token ID" for an unassigned id
ownerOf(s, id) ==
    IF _exists(s, id) THEN Ok(s._owners[id]) ELSE Fail("NotFound")

\* ERC721URIStorage.tokenURI with the empty base URI: the stored string
tokenURI(s, id) ==
    IF _exists(s, id) THEN Ok(s._tokenURIs[id]) ELSE Fail("NotFound")

(* ------------------------------ createNFT ------------------------------ *)

\* identifiers started at 1: uint256 newItemId = tokenCounter + 1;
newItemIdOf_fromOne(s) == s.tokenCounter + 1

\* uint256 newItemId = tokenCounter;
newItemIdOf(s) == s.tokenCounter

\* tokenCounter += 1;
Incremented(c) == c + 1

\* tokenCounter += 1 moved in front of _safeMint
createNFT_toReceiverCheck_countFirst(s, sender) ==
    [s EXCEPT !._owners[s.tokenCounter] = sender,
              !.hist.mints[s.tokenCounter] = @ + 1,
              !.tokenCounter = @ + 1]

\* createNFT up to the receiver check inside _safeMint(msg.sender, newItemId):
\* the token is assigned, nothing else of createNFT has run yet
createNFT_toReceiverCheck(s, sender) ==
    _mint(s, sender, newItemIdOf(s))

\* the URI stored under tokenCounter after the increment, not under newItemId
createNFT_afterSafeMint_uriAtCounter(s, sender, id, uri) ==
    [s EXCEPT !._tokenURIs[s.tokenCounter + 1] = uri,
              !.hist.uriSets[s.tokenCounter + 1] = @ + 1,
              !.tokenCounter = @ + 1,
              !.hist.returned = Append(@, [id |-> id, by |-> sender, uri |-> uri])]

\* createNFT once _safeMint has returned:
\* _setTokenURI(newItemId, tokenURI); tokenCounter += 1; return newItemId;
createNFT_afterSafeMint(s, sender, id, uri) ==
    LET s2 == _setTokenURI(s, id, uri)
    IN  [s2 EXCEPT !.tokenCounter = Incremented(@),
                   !.hist.returned =
                       Append(@, [id |-> id, by |-> sender, uri |-> uri])]

\* who can be msg.sender now: anyone between transactions, only accounts with
\* code while a receiver check is running
Callers == IF frames = <<>> THEN Addr ELSE Contracts

Called(op, sender, id, str, err) ==
    lastCall' = [op |-> op, sender |-> sender, id |-> id, str |-> str,
                 err |-> err, depth |-> Len(frames)]

\* function createNFT(string memory tokenURI) public onlyOwner returns (uint256)
CreateNFT(sender, uri) ==
    /\ sender \in Callers
    /\ Len(frames) < MaxDepth
    /\ (onlyOwner(Storage, sender) /\ ~_exists(Storage, newItemIdOf(Storage)))
           => tokenCounter < MaxTokens
    /\ LET s  == Storage
           id == newItemIdOf(s)
       IN  IF ~onlyOwner(s, sender)
           THEN /\ Called("createNFT", sender, -1, uri, "Authorization")
                /\ UNCHANGED <<owner, tokenCounter, _owners, _tokenURIs, frames, hist>>
           ELSE IF _exists(s, id)
           THEN \* _mint: require(!_exists(tokenId), "ERC721: token already minted")
                /\ Called("createNFT", sender, -1, uri, "AlreadyMinted")
                /\ UNCHANGED <<owner, tokenCounter, _owners, _tokenURIs, frames, hist>>
           ELSE IF sender \in Contracts
           THEN \* _checkOnERC721Received calls the receiver: createNFT is suspended
                /\ Store(createNFT_toReceiverCheck(s, sender))
                /\ frames' = Append(frames, [sender |-> sender, uri |-> uri,
                                             newItemId |-> id, saved |-> s])
                /\ Called("createNFT.receiverCheck", sender, id, uri, "")
           ELSE \* no code at msg.sender: no call out, createNFT runs to its end
                /\ Store(createNFT_afterSafeMint(
                            createNFT_toReceiverCheck(s, sender), sender, id, uri))
                /\ Called("createNFT", sender, id, uri, "")
                /\ UNCHANGED frames

\* the receiver answers the check of the innermost suspended createNFT: with
\* the magic value, and createNFT goes on, or with anything else (or a revert),
\* and createNFT reverts to the storage it started from
ReceiverReturns(accept) ==
    /\ frames # <<>>
    /\ LET f    == frames[Len(frames)]
           rest == SubSeq(frames, 1, Len(frames) - 1)
           back == [op |-> "createNFT", sender |-> f.sender, id |-> f.newItemId,
                    str |-> f.uri, err |-> "", depth |-> Len(rest)]
       IN  /\ frames' = rest
           /\ IF accept /\ _exists(Storage, f.newItemId)
              THEN /\ Store(createNFT_afterSafeMint(Storage, f.sender, f.newItemId, f.uri))
                   /\ lastCall' = back
              ELSE /\ Store(f.saved)
                   /\ lastCall' = [back EXCEPT !.id = -1,
                          !.err = IF accept THEN "NonexistentToken" ELSE "ReceiverRejected"]

(* ----------------------- inherited operations -------------------------- *)

\* ERC721.transferFrom(from, to, tokenId), called by the token's owner.
\* safeTransferFrom and a transfer by an approved operator change the same
\* storage in the same way; approvals are not part of the model.
TransferFrom(sender, to, id) ==
    /\ sender \in Callers
    /\ IF _exists(Storage, id) /\ _owners[id] = sender /\ to # Zero
       THEN /\ _owners' = [_owners EXCEPT ![id] = to]
            /\ hist' = [hist EXCEPT !.transferred = @ \cup {id}]
       ELSE UNCHANGED <<_owners, hist>>
    /\ UNCHANGED <<owner, tokenCounter, _tokenURIs, frames, lastCall>>

\* Ownable.transferOwnership(newOwner)
TransferOwnership(sender, newOwner) ==
    /\ sender \in Callers
    /\ IF onlyOwner(Storage, sender) /\ newOwner # Zero
       THEN owner' = newOwner
       ELSE UNCHANGED owner
    /\ UNCHANGED <<tokenCounter, _owners, _tokenURIs, frames, hist, lastCall>>

\* Ownable.renounceOwnership()
RenounceOwnership(sender) ==
    /\ sender \in Callers
    /\ IF onlyOwner(Storage, sender)
       THEN owner' = Zero
       ELSE UNCHANGED owner
    /\ UNCHANGED <<tokenCounter, _owners, _tokenURIs, frames, hist, lastCall>>

\* a call of the view ownerOf(tokenId), by anyone
ReadOwnerOf(id) ==
    /\ Called("ownerOf", Zero, id, ownerOf(Storage, id).val, ownerOf(Storage, id).err)
    /\ UNCHANGED <<owner, tokenCounter, _owners, _tokenURIs, frames, hist>>

\* a call of the view tokenURI(tokenId), by anyone
ReadTokenURI(id) ==
    /\ Called("tokenURI", Zero, id, tokenURI(Storage, id).val, tokenURI(Storage, id).err)
    /\ UNCHANGED <<owner, tokenCounter, _owners, _tokenURIs, frames, hist>>

(* ========================== the client scripts ========================= *)

\* the statements of main(), in order: scripts/deploy.js and the mint script
MainSteps(s) ==
    IF s = "deploy"
    THEN <<"getSigners", "logDeployer", "getContractFactory", "deploy", "logDeployed">>
    ELSE <<"getSigners", "getContractAt", "createNFT", "wait", "logMinted">>

StepNames == {"getSigners", "logDeployer", "getContractFactory", "deploy",
              "logDeployed", "getContractAt", "createNFT", "wait", "logMinted"}

\* what each console.log statement writes
LineOf(step) ==
    CASE step = "logDeployer" -> "Deploying contracts with the account:"
      [] step = "logDeployed" -> "NFT Contract deployed to:"
      [] step = "logMinted"   -> "NFT minted with URI:"
      [] OTHER                -> ""

IsLog(step) == step \in {"logDeployer", "logDeployed", "logMinted"}

\* the statement after `step` in main(), "resolved" after the last one
StepAfter(s, step) ==
    LET i == CHOOSE k \in 1 .. Len(MainSteps(s)) : MainSteps(s)[k] = step
    IN  IF i = Len(MainSteps(s)) THEN "resolved" ELSE MainSteps(s)[i + 1]

\* errors a statement can throw: the awaited calls reject, and
\* deployer.address throws when getSigners() gave no account
ErrorsOf(step) ==
    CASE step \in {"getSigners", "getContractFactory", "getContractAt"}
              -> {"NetworkFailure", "Unspecified"}
      [] step = "deploy"      -> {"NetworkFailure"}
      [] step = "createNFT"   -> {"NetworkFailure", "Authorization"}
      [] step = "wait"        -> {"NetworkFailure"}
      [] step = "logDeployer" -> IF deployer = "undefined" THEN {"TypeError"} ELSE {}
      [] OTHER                -> {}

\* .catch((error) => { console.error(error); process.exitCode = 1; }) left
\* the exit code as it was
exitCodeAfterCatch_kept(code) == code

\* process.exitCode = 1;
exitCodeAfterCatch(code) == 1

ErrorNames == {"NetworkFailure", "Unspecified", "Authorization", "TypeError"}

\* npx hardhat run scripts/<script>.js: a fresh process that calls main()
Started(s) ==
    [script |-> s, pc |-> "getSigners", steps |-> <<"getSigners">>,
     deployer |-> "undefined", tx |-> "unsent", stdout |-> <<>>,
     stderr |-> <<>>, exitCode |-> 0]

\* the first run of the session
RunStarts ==
    /\ \E s \in {"deploy", "mint"} :
          /\ script = s
          /\ pc = Started(s).pc
          /\ steps = Started(s).steps
          /\ deployer = Started(s).deployer
          /\ tx = Started(s).tx
          /\ stdout = Started(s).stdout
          /\ stderr = Started(s).stderr
          /\ exitCode = Started(s).exitCode
    /\ finished = <<>>

\* the statement main() is at completes and main() goes on to the next one
StepReturns ==
    /\ pc \in StepNames
    /\ pc = "logDeployer" => deployer # "undefined"
    /\ pc = "wait" => tx = "confirmed"
    /\ IF pc = "getSigners"
       THEN deployer' \in {"undefined", "0xDeployer"}
       ELSE UNCHANGED deployer
    /\ tx' = IF pc \in {"deploy", "createNFT"} THEN "pending" ELSE tx
    /\ stdout' = IF IsLog(pc) THEN Append(stdout, LineOf(pc)) ELSE stdout
    /\ pc' = StepAfter(script, pc)
    /\ steps' = IF pc' = "resolved" THEN steps ELSE Append(steps, pc')
    /\ UNCHANGED <<script, stderr, exitCode, finished>>

\* the statement main() is at throws: main()'s promise rejects and the
\* top-level catch prints the error and sets the exit code
StepThrows(error) ==
    /\ pc \in StepNames
    /\ error \in ErrorsOf(pc)
    /\ pc = "wait" => tx # "confirmed"
    /\ stderr' = Append(stderr, error)
    /\ exitCode' = exitCodeAfterCatch(exitCode)
    /\ pc' = "caught"
    /\ UNCHANGED <<script, steps, deployer, tx, stdout, finished>>

\* nothing is left to run: the process ends with process.exitCode
ProcessExits ==
    /\ pc \in {"resolved", "caught"}
    /\ pc' = "exited"
    /\ finished' = Append(finished, [script |-> script, exitCode |-> exitCode,
                                      threw |-> stderr # <<>>, ran |-> steps])
    /\ UNCHANGED <<script, steps, deployer, tx, stdout, stderr, exitCode>>

\* the network includes the transaction in a block
TxConfirmed ==
    /\ tx = "pending"
    /\ tx' = "confirmed"
    /\ UNCHANGED <<script, pc, steps, deployer, stdout, stderr, exitCode, finished>>

\* the network drops the transaction, or its execution reverts
TxRejected ==
    /\ tx = "pending"
    /\ tx' = "rejected"
    /\ UNCHANGED <<script, pc, steps, deployer, stdout, stderr, exitCode, finished>>


\* the user runs a script again once the previous run has ended
NextRun ==
    /\ pc = "exited"
    /\ Len(finished) < MaxRuns
    /\ \E s \in {"deploy", "mint"} :
          /\ script' = s
          /\ pc' = Started(s).pc
          /\ steps' = Started(s).steps
          /\ deployer' = Started(s).deployer
          /\ tx' = Started(s).tx
          /\ stdout' = Started(s).stdout
          /\ stderr' = Started(s).stderr
          /\ exitCode' = Started(s).exitCode
    /\ UNCHANGED finished

(* ============================== the viewer ============================= *)

\* contract.tokenURI(0)
TokenIdAsked == 0

\* the storage a node answers eth_call from: that of the last completed
\* transaction, not the storage inside a transaction that is still running
Committed == IF frames = <<>> THEN Storage ELSE frames[1].saved

\* getNFTData with a catch that shows the error
getNFTData_onReject_showsError(display, error) == error

\* getNFTData has no try/catch: a rejected await ends the invocation and
\* setNFTURI is never reached
getNFTData_onReject(display, error) == display

\* const tokenURI = await contract.tokenURI(0); setNFTURI(tokenURI);
getNFTData_onResolve(display, value) == value

ViewInit ==
    /\ nftURI = ""
    /\ reads = [i \in 1 .. MaxClicks |-> [pc |-> "unclicked", val |-> ""]]
    /\ fetched = {}
    /\ asked = {}

Ends(i, error) ==
    /\ reads' = [reads EXCEPT ![i].pc = "failed"]
    /\ nftURI' = getNFTData_onReject(nftURI, error)

\* <button onClick={getNFTData}>: the i-th click starts an invocation, which
\* runs to `await provider.getSigner()`, or ends at once when
\* new ethers.BrowserProvider(window.ethereum) throws (no wallet)
Click(i, wallet) ==
    /\ reads[i].pc = "unclicked"
    /\ i > 1 => reads[i - 1].pc # "unclicked"
    /\ IF wallet
       THEN reads' = [reads EXCEPT ![i].pc = "getSigner"] /\ UNCHANGED nftURI
       ELSE Ends(i, "NoWallet")
    /\ UNCHANGED <<fetched, asked>>

\* provider.getSigner() resolves (and contract.tokenURI(0) is sent) or rejects
SignerAnswers(i, granted) ==
    /\ reads[i].pc = "getSigner"
    /\ IF granted
       THEN /\ reads' = [reads EXCEPT ![i].pc = "tokenURI"]
            /\ asked' = asked \cup {TokenIdAsked}
            /\ UNCHANGED nftURI
       ELSE Ends(i, "SignerRejected") /\ UNCHANGED asked
    /\ UNCHANGED fetched

\* the node answers contract.tokenURI(0) from the registry, or cannot be reached
NodeAnswers(i, reachable) ==
    /\ reads[i].pc = "tokenURI"
    /\ LET r == tokenURI(Committed, TokenIdAsked)
       IN  IF reachable /\ r.err = ""
           THEN /\ reads' = [reads EXCEPT ![i] = [pc |-> "resolved", val |-> r.val]]
                /\ fetched' = fetched \cup {r.val}
                /\ UNCHANGED nftURI
           ELSE /\ Ends(i, IF reachable THEN r.err ELSE "NetworkFailure")
                /\ UNCHANGED fetched
    /\ UNCHANGED asked

\* the invocation resumes after the await: setNFTURI(tokenURI)
Resumes(i) ==
    /\ reads[i].pc = "resolved"
    /\ nftURI' = getNFTData_onResolve(nftURI, reads[i].val)
    /\ reads' = [reads EXCEPT ![i].pc = "done"]
    /\ UNCHANGED <<fetched, asked>>

(* =========================== the specifications ========================= *)

\* no client script is running
ClientIdle ==
    /\ script = "none"
    /\ pc = "exited"
    /\ steps = <<>>
    /\ deployer = "undefined"
    /\ tx = "unsent"
    /\ stdout = <<>>
    /\ stderr = <<>>
    /\ exitCode = 0
    /\ finished = <<>>

Init == RegInit /\ ClientIdle /\ ViewInit

\* the registry under every call that can be made on it
Next ==
    \/ \E a \in Addr, u \in URIs : CreateNFT(a, u) /\ UNCHANGED offChain
    \/ \E ok \in BOOLEAN : ReceiverReturns(ok) /\ UNCHANGED offChain
    \/ \E a \in Addr, b \in Addr, i \in Ids : TransferFrom(a, b, i) /\ UNCHANGED offChain
    \/ \E a \in Addr, b \in Addr : TransferOwnership(a, b) /\ UNCHANGED offChain
    \/ \E a \in Addr : RenounceOwnership(a) /\ UNCHANGED offChain
    \/ \E i \in Ids : ReadOwnerOf(i) /\ UNCHANGED offChain
    \/ \E i \in Ids : ReadTokenURI(i) /\ UNCHANGED offChain

Spec == Init /\ [][Next]_vars

ClientInit == RegInitBy("alice") /\ ViewInit /\ RunStarts

\* runs of the client scripts, one after the other, against the network
ClientNext ==
    \/ StepReturns /\ UNCHANGED <<regVars, viewVars>>
    \/ \E e \in ErrorNames : StepThrows(e) /\ UNCHANGED <<regVars, viewVars>>
    \/ ProcessExits /\ UNCHANGED <<regVars, viewVars>>
    \/ TxConfirmed /\ UNCHANGED <<regVars, viewVars>>
    \/ TxRejected /\ UNCHANGED <<regVars, viewVars>>
    \/ NextRun /\ UNCHANGED <<regVars, viewVars>>

ClientSpec == ClientInit /\ [][ClientNext]_vars

\* a session of the viewer, while the registry's owner creates tokens
ViewNext ==
    \/ \E i \in 1 .. MaxClicks, w \in BOOLEAN :
          Click(i, w) /\ UNCHANGED <<regVars, clientVars>>
    \/ \E i \in 1 .. MaxClicks, g \in BOOLEAN :
          SignerAnswers(i, g) /\ UNCHANGED <<regVars, clientVars>>
    \/ \E i \in 1 .. MaxClicks, r \in BOOLEAN :
          NodeAnswers(i, r) /\ UNCHANGED <<regVars, clientVars>>
    \/ \E i \in 1 .. MaxClicks : Resumes(i) /\ UNCHANGED <<regVars, clientVars>>
    \/ \E u \in URIs : CreateNFT(owner, u) /\ UNCHANGED offChain
    \/ \E ok \in BOOLEAN : ReceiverReturns(ok) /\ UNCHANGED offChain

ViewSpec == Init /\ [][ViewNext]_vars

(* =========================== the registry's claims ====================== *)

\* C1: the identifiers returned by the successful createNFT calls are
\* 0, 1, 2, ... in call order: the k-th successful call returns k-1, whatever
\* failed calls (by non-owners or others) come in between.
C1_SequentialIds ==
    \A k \in 1 .. Len(hist.returned) : hist.returned[k].id = k - 1

\* two successful creations, the latest call being a non-owner's failed one
C1_Witness ==
    /\ Len(hist.returned) = 2
    /\ lastCall.op = "createNFT" /\ lastCall.err = "Authorization"

\* C2: every createNFT call by a principal other than the current owner ends
\* with the Authorization error and leaves tokenCounter, the token-owner
\* mapping and the token-URI mapping (and the owner) as they were.
C2_NonOwnerCreateFails ==
    [][\A a \in Addr, u \in URIs :
          (CreateNFT(a, u) /\ a # owner) =>
              /\ lastCall'.op = "createNFT" /\ lastCall'.err = "Authorization"
              /\ UNCHANGED <<owner, tokenCounter, _owners, _tokenURIs, hist>>]_vars

\* a non-owner's createNFT has just failed on a registry that holds a token
C2_Witness ==
    /\ lastCall.op = "createNFT" /\ lastCall.err = "Authorization"
    /\ lastCall.sender # owner
    /\ tokenCounter >= 1

\* C3 as stated: for every createNFT(uri) by p that returned id, ownerOf(id)
\* is p and tokenURI(id) is uri in every later state, whatever operations of
\* the registry (the inherited ones included) have run since.
C3_ReadsFixedForever ==
    \A k \in 1 .. Len(hist.returned) :
        LET r == hist.returned[k]
        IN  /\ ownerOf(Storage, r.id) = Ok(r.by)
            /\ tokenURI(Storage, r.id) = Ok(r.uri)

\* C3 amended: tokenURI(id) is uri in every later state; ownerOf(id) never
\* fails, and is p as long as the token has not been transferred with the
\* inherited transferFrom since it was minted.
C3_URIFixedOwnerUntilTransfer ==
    \A k \in 1 .. Len(hist.returned) :
        LET r == hist.returned[k]
        IN  /\ tokenURI(Storage, r.id) = Ok(r.uri)
            /\ ownerOf(Storage, r.id).err = ""
            /\ r.id \notin hist.transferred => ownerOf(Storage, r.id) = Ok(r.by)

\* token 0 was created with a non-empty URI and transferred, token 1 was
\* created after it and not transferred, and a creation has failed since
C3_Witness ==
    /\ Len(hist.returned) = 2
    /\ hist.returned[1].uri # ""
    /\ hist.transferred = {0}
    /\ lastCall.op = "createNFT" /\ lastCall.err # ""

\* C4: a read of ownerOf(id) or tokenURI(id) with id >= tokenCounter fails
\* with NotFound, in every state the registry can be read in.
C4_NotFoundFromCounterUp ==
    (lastCall.op \in {"ownerOf", "tokenURI"} /\ lastCall.id >= tokenCounter)
        => lastCall.err = "NotFound"

\* C5: every identifier with an owner entry has had its URI entry written and
\* is below tokenCounter, and tokenCounter is the number of successful
\* createNFT calls, the assigned identifiers being 0 .. tokenCounter-1.
C5_EntriesBelowCounter ==
    /\ \A i \in Ids :
          _owners[i] # Zero => (hist.uriSets[i] >= 1 /\ i < tokenCounter)
    /\ tokenCounter = Len(hist.returned)
    /\ \A i \in Ids : i < tokenCounter => _owners[i] # Zero

\* C9: every step of the registry that takes one of createNFT's three effects
\* (an owner recorded for a new identifier, a URI written, tokenCounter
\* changed) takes all three for the same identifier, so that no call sees
\* only some of them.
C9_AllOrNothing ==
    [][LET Assigned(i) == _owners[i] = Zero /\ _owners'[i] # Zero
           Written(i)  == hist'.uriSets[i] = hist.uriSets[i] + 1
       IN  ((\E i \in Ids : Assigned(i) \/ Written(i)) \/ tokenCounter' > tokenCounter)
               => /\ Assigned(tokenCounter)
                  /\ Written(tokenCounter)
                  /\ tokenCounter' = tokenCounter + 1]_vars

\* C10: no identifier is assigned twice and no URI of an assigned identifier
\* is written again, and every createNFT started inside the receiver check of
\* another createNFT fails: on the already assigned identifier when the
\* caller is (still) the owner, on the authorization check otherwise.
C10_NestedCreateFails ==
    /\ \A i \in Ids : hist.mints[i] <= 1 /\ hist.uriSets[i] <= 1
    /\ (lastCall.op \in {"createNFT", "createNFT.receiverCheck"} /\ lastCall.depth >= 1)
          => lastCall.err \in {"AlreadyMinted", "Authorization"}

\* the owner's nested createNFT has just failed on the identifier that the
\* suspended createNFT assigned
C10_Witness ==
    /\ Len(frames) = 1
    /\ lastCall.op = "createNFT" /\ lastCall.depth = 1
    /\ lastCall.sender = owner /\ lastCall.err = "AlreadyMinted"
    /\ _owners[tokenCounter] # Zero

(* ======================== the client scripts' claims ==================== *)

Range(s) == {s[i] : i \in DOMAIN s}

IsPrefix(a, b) == Len(a) <= Len(b) /\ a = SubSeq(b, 1, Len(a))

\* the lines the console.log statements among `done` write, in order
LinesOf(done) ==
    LET logs == SelectSeq(done, IsLog)
    IN  [i \in 1 .. Len(logs) |-> LineOf(logs[i])]

\* the statements of the current run that have completed
Completed ==
    IF pc = "resolved" \/ (pc = "exited" /\ stderr = <<>>)
    THEN steps
    ELSE SubSeq(steps, 1, Len(steps) - 1)

\* C6: whenever the deploy script has printed 'NFT Contract deployed to:',
\* the network has confirmed the deployment transaction.
C6_ReportedOnlyWhenConfirmed ==
    (script = "deploy" /\ LineOf("logDeployed") \in Range(stdout))
        => tx = "confirmed"

\* C7: a run makes one attempt: the statements of main() run in order, each
\* at most once, and none after one has thrown; an error is printed at most
\* once and makes the exit code 1; a run in which nothing throws runs every
\* statement and ends with exit code 0; and the mint script has printed
\* 'NFT minted with URI:' only if its transaction is confirmed.
C7_SingleAttempt ==
    /\ IsPrefix(steps, MainSteps(script))
    /\ stdout = LinesOf(Completed)
    /\ Len(stderr) <= 1
    /\ stderr # <<>> => (pc \in {"caught", "exited"} /\ exitCode = 1)
    /\ stderr = <<>> => exitCode = 0
    /\ (pc = "exited" /\ stderr = <<>>) => steps = MainSteps(script)
    /\ LineOf("logMinted") \in Range(stdout) => tx = "confirmed"
    /\ \A k \in 1 .. Len(finished) :
          LET r == finished[k]
          IN  /\ r.exitCode = IF r.threw THEN 1 ELSE 0
              /\ ~r.threw => r.ran = MainSteps(r.script)

\* a mint run has ended with exit code 1 because the confirmation wait threw,
\* after a run that ended with exit code 0
C7_Witness ==
    /\ script = "mint" /\ pc = "exited"
    /\ steps[Len(steps)] = "wait" /\ stderr # <<>> /\ exitCode = 1
    /\ Len(finished) = 2 /\ finished[1].exitCode = 0

(* ============================ the viewer's claim ======================== *)

\* C8: the displayed nftURI is the initial empty string or a value that a
\* successful tokenURI(0) read returned; the viewer asks for token 0 only and
\* asks nothing before the first click; and a step in which an invocation
\* fails (wallet, signer or read) leaves nftURI as it was.
C8_DisplayOnlyFromSuccessfulRead ==
    /\ [](/\ nftURI \in {""} \cup fetched
          /\ asked \subseteq {0}
          /\ reads[1].pc = "unclicked" => (asked = {} /\ fetched = {} /\ nftURI = ""))
    /\ [][\A i \in 1 .. MaxClicks :
             (reads[i].pc # "failed" /\ reads'[i].pc = "failed")
                 => nftURI' = nftURI]_vars

\* a first read has set the display and a second one has failed after it
C8_Witness ==
    /\ reads[1].pc = "done" /\ nftURI # ""
    /\ reads[2].pc = "failed"
    /\ asked = {0}

=============================================================================
